---- MODULE Spec2Model ----
(***************************************************************************)
(* Model of jefit/client.py: the JEFIT log scraper.                        *)
(*                                                                         *)
(* Text is a sequence of Unicode code points ("Set " is <<83,101,116,32>>).*)
(* A natural number of any size is the sequence of its decimal digits,     *)
(* most significant first and without leading zeros (<<0>> is zero); a     *)
(* Python int is [sign, mag].  A Python float is a binary double:          *)
(* [kind, neg, m, e] with kind "finite", "inf" or "nan" and, when finite,  *)
(* the value m * 2^e with m odd (or m zero and e = 0).                     *)
(* A local that may hold None is an option: Nothing is None and Some(x) is *)
(* the value x.  For strings, None is the string "None".                   *)
(*                                                                         *)
(* The libraries are modelled as pydantic 2 (str -> int and str -> float   *)
(* coercion in lax mode) and httpx 0.28 (raise_for_status), on CPython 3.11*)
(* (Unicode 14 tables for \d and whitespace).                              *)
(***************************************************************************)
EXTENDS Integers, Sequences, FiniteSets, TLC

VARIABLES
  \* ---- parse_to_lifting_log called on its own -------------------------
  tokens,          \* the tokens the input text was written from
  sep,             \* the text between two tokens
  liftinglogs,     \* the argument of parse_to_lifting_log
  logs,            \* its return value (None before the call)
  ppc,             \* "call" before the call, "done" or "raised" after it
  \* ---- JEFITClient.get_workout_from_date ------------------------------
  url_config,      \* self.url_config
  optimized,       \* the interpreter runs with -O: assert statements are dropped
  username, date,  \* the arguments
  pc,              \* position in get_workout_from_date
  session,         \* the httpx.Client: "none", "open" or "closed"
  requests,        \* the HTTP requests issued so far
  response,        \* the local `response`
  soup,            \* the local `soup`
  workout,         \* the local `workout`
  exercises,       \* the local `exercises`
  exercise_blocks, \* the local `exercise_blocks`
  idx,             \* position of the for loop in `exercises`
  result,          \* the value returned to the caller
  error            \* the exception raised to the caller

parseVars  == <<tokens, sep, liftinglogs, logs, ppc>>
clientVars == <<url_config, optimized, username, date, pc, session, requests,
                response, soup, workout, exercises, exercise_blocks, idx,
                result, error>>
vars == <<tokens, sep, liftinglogs, logs, ppc, url_config, optimized, username,
          date, pc, session, requests, response, soup, workout, exercises,
          exercise_blocks, idx, result, error>>

None == "None"

Nothing == <<>>
Some(x) == <<x>>
Get(o)  == o[1]

\* ------------------------------------------------------------------------
\* Bounds of the model
\* ------------------------------------------------------------------------
MaxTokens == 2
MaxExercises == 2

\* ------------------------------------------------------------------------
\* Characters
\* ------------------------------------------------------------------------
\* the code points of the digit zero of every Unicode decimal digit system
\* (category Nd); the digits 0..9 of a system follow each other
DigitZeros ==
  {48, 1632, 1776, 1984, 2406, 2534, 2662, 2790, 2918, 3046, 3174, 3302,
   3430, 3558, 3664, 3792, 3872, 4160, 4240, 6112, 6160, 6470, 6608, 6784,
   6800, 6992, 7088, 7232, 7248, 42528, 43216, 43264, 43472, 43504, 43600,
   44016, 65296, 66720, 68912, 69734, 69872, 69942, 70096, 70384, 70736,
   70864, 71248, 71360, 71472, 71904, 72016, 72784, 73040, 73120, 92768,
   92864, 93008, 120782, 120792, 120802, 120812, 120822, 123200, 123632,
   125264, 130032}

\* what \d matches in a str pattern: every Unicode decimal digit
Digit == UNION {z..(z + 9) : z \in DigitZeros}

AsciiDigit == 48..57

\* the value 0..9 of a decimal digit
DigitVal(c) == c - (CHOOSE z \in DigitZeros : c \in z..(z + 9))

\* str.strip() removes these: the characters with str.isspace()
Whitespace ==
  {9, 10, 11, 12, 13, 28, 29, 30, 31, 32, 133, 160, 5760} \cup (8192..8202)
    \cup {8232, 8233, 8239, 8287, 12288}

\* float() and pydantic's str coercions remove these around the number:
\* Unicode White_Space, which leaves out the separators 28..31
NumberWhitespace == Whitespace \ (28..31)

\* the least and the greatest element of a set of integers
Min(S) == CHOOSE x \in S : \A y \in S : x <= y
Max(S) == 0 - Min({0 - x : x \in S})

\* s without the leading and trailing characters that are in ws
StripOf(s, ws) ==
  IF \A k \in 1..Len(s) : s[k] \in ws THEN <<>>
  ELSE LET first == CHOOSE k \in 1..Len(s) :
                      s[k] \notin ws /\ \A j \in 1..(k - 1) : s[j] \in ws
           back  == CHOOSE k \in 1..Len(s) :
                      /\ s[Len(s) + 1 - k] \notin ws
                      /\ \A j \in 1..(k - 1) : s[Len(s) + 1 - j] \in ws
       IN SubSeq(s, first, Len(s) + 1 - back)

LStrip(s) ==
  LET keep == {k \in 1..Len(s) : s[k] \notin Whitespace}
  IN IF keep = {} THEN <<>> ELSE SubSeq(s, Min(keep), Len(s))

RStrip(s) ==
  LET keep == {k \in 1..Len(s) : s[k] \notin Whitespace}
  IN IF keep = {} THEN <<>> ELSE SubSeq(s, 1, Max(keep))

\* str.strip()
Strip(s) == LStrip(RStrip(s))

\* position of the first character of s that is in cs, or 0
FirstOf(s, cs) ==
  LET at == {k \in 1..Len(s) : s[k] \in cs}
  IN IF at = {} THEN 0 ELSE Min(at)

\* position of the first "." of s, or 0
DotAt(s) == FirstOf(s, {46})

\* an ASCII letter in lower case
Lower(c) == IF c \in 65..90 THEN c + 32 ELSE c

\* every "_" of s stands between two ASCII digits
UnderscoresOk(s) ==
  \A k \in 1..Len(s) :
    s[k] = 95 => (k > 1 /\ k < Len(s) /\ s[k - 1] \in AsciiDigit /\ s[k + 1] \in AsciiDigit)

WithoutUnderscores(s) == SelectSeq(s, LAMBDA c : c # 95)

AllDigits(s) == \A k \in 1..Len(s) : s[k] \in AsciiDigit

\* ------------------------------------------------------------------------
\* Natural numbers of any size, as decimal digits
\* ------------------------------------------------------------------------
\* drop the leading zeros
Canon(ds) ==
  LET nz == {k \in 1..Len(ds) : ds[k] # 0}
  IN IF nz = {} THEN <<0>> ELSE SubSeq(ds, Min(nz), Len(ds))

\* the digits of a string of ASCII digits
DigitsOf(s) == [k \in 1..Len(s) |-> s[k] - 48]

\* a < b
Less(a, b) ==
  \/ Len(a) < Len(b)
  \/ /\ Len(a) = Len(b)
     /\ \E k \in 1..Len(a) : a[k] < b[k] /\ \A j \in 1..(k - 1) : a[j] = b[j]

IsOdd(a) == a[Len(a)] % 2 = 1

\* a \div 2
Halve(a) ==
  Canon([k \in 1..Len(a) |-> ((IF k > 1 THEN (a[k - 1] % 2) * 10 ELSE 0) + a[k]) \div 2])

\* 2 * a
Double(a) ==
  (IF a[1] >= 5 THEN <<1>> ELSE <<>>)
    \o [k \in 1..Len(a) |-> (2 * a[k] + (IF k < Len(a) /\ a[k + 1] >= 5 THEN 1 ELSE 0)) % 10]

\* a + 1
Inc(a) ==
  LET not9 == {k \in 1..Len(a) : a[k] # 9}
  IN IF not9 = {} THEN <<1>> \o [k \in 1..Len(a) |-> 0]
     ELSE [k \in 1..Len(a) |-> IF k < Max(not9) THEN a[k]
                               ELSE IF k = Max(not9) THEN a[k] + 1 ELSE 0]

\* a * 10^x
TimesPow10(a, x) == IF a = <<0>> THEN a ELSE a \o [k \in 1..x |-> 0]

\* a * 2^n, by halving n
RECURSIVE TimesPow2(_, _)
TimesPow2(a, n) ==
  IF n = 0 THEN a
  ELSE IF n = 1 THEN Double(a)
  ELSE LET half == TimesPow2(a, n \div 2)
       IN IF half = <<0>> THEN half ELSE TimesPow2(half, n - (n \div 2))

\* a \div 2^n, by halving n; lost tells whether a bit that was dropped was set
RECURSIVE ShiftRight(_, _)
ShiftRight(a, n) ==
  IF n <= 0 THEN [q |-> a, lost |-> FALSE]
  ELSE IF n = 1 THEN [q |-> Halve(a), lost |-> IsOdd(a)]
  ELSE LET lo == ShiftRight(a, n \div 2)
       IN IF lo.q = <<0>> THEN lo
          ELSE LET hi == ShiftRight(lo.q, n - (n \div 2))
               IN [q |-> hi.q, lost |-> lo.lost \/ hi.lost]

\* the number of binary digits of a: the k with 2^(k-1) <= a < 2^k.  A number
\* of L decimal digits has between (L - 1) * log2(10) and L * log2(10) + 1 of
\* them (log2(10) = 3.3219280...).
BitLen(a) ==
  IF a = <<0>> THEN 0
  ELSE CHOOSE k \in (((Len(a) - 1) * 3321928) \div 1000000 + 1)..((Len(a) * 3321929) \div 1000000 + 1) :
         /\ ~ Less(a, TimesPow2(<<1>>, k - 1))
         /\ Less(a, TimesPow2(<<1>>, k))

\* the value of at most 9 digits as a number of the model
RECURSIVE SmallNat(_)
SmallNat(ds) ==
  IF ds = <<>> THEN 0 ELSE 10 * SmallNat(SubSeq(ds, 1, Len(ds) - 1)) + ds[Len(ds)]

\* 2^53: below it every natural number is a double
TwoPow53 == <<9, 0, 0, 7, 1, 9, 9, 2, 5, 4, 7, 4, 0, 9, 9, 2>>

\* ------------------------------------------------------------------------
\* Binary doubles
\* ------------------------------------------------------------------------
Zero(neg) == [kind |-> "finite", neg |-> neg, m |-> <<0>>, e |-> 0]
Inf(neg)  == [kind |-> "inf", neg |-> neg, m |-> <<0>>, e |-> 0]
NaN       == [kind |-> "nan", neg |-> FALSE, m |-> <<0>>, e |-> 0]

\* drop n trailing binary zeros of r.m if it has that many
DropZeros(r, n) ==
  LET sh == ShiftRight(r.m, n)
  IN IF sh.lost \/ r.m = <<0>> THEN r ELSE [m |-> sh.q, e |-> r.e + n]

\* make the mantissa odd, dropping n, n \div 2, ..., 1 trailing zeros
RECURSIVE NormalizeBy(_, _)
NormalizeBy(r, n) ==
  IF n = 0 \/ r.m = <<0>> THEN r ELSE NormalizeBy(DropZeros(r, n), n \div 2)

\* make the mantissa odd; q has at most 54 binary digits
Normalize(q, e) == NormalizeBy([m |-> q, e |-> e], 32)

\* q * 2^e cut to 53 binary digits (fewer for a subnormal) and rounded on
\* the bits cut off, ties to even; sticky tells that a fraction was dropped
\* from q before
Round(q, e, sticky) ==
  LET h     == Max({BitLen(q) - 53, 0 - 1074 - e, 0})
      cut   == ShiftRight(q, h - 1)
      q1    == IF h > 0 THEN Halve(cut.q) ELSE q
      guard == h > 0 /\ IsOdd(cut.q)
      rest  == sticky \/ (h > 0 /\ cut.lost)
  IN [q |-> IF guard /\ (rest \/ IsOdd(q1)) THEN Inc(q1) ELSE q1, e |-> e + h]

\* the double of the sign neg with mantissa r.q and exponent r.e
Pack(neg, r) ==
  LET n == Normalize(r.q, r.e)
  IN IF n.m = <<0>> THEN Zero(neg)
     ELSE IF BitLen(n.m) + n.e > 1024 THEN Inf(neg)
     ELSE [kind |-> "finite", neg |-> neg, m |-> n.m, e |-> n.e]

\* the double nearest to N * 10^x (ties to even), N in canonical digits:
\* N * 10^x is written as (q + fraction) * 2^(-s) with q of at least 60
\* binary digits unless the value is a whole number, then rounded
ToDouble(neg, N, x) ==
  IF N = <<0>> THEN Zero(neg)
  ELSE IF Len(N) + x > 310 THEN Inf(neg)
  ELSE IF Len(N) + x < 0 - 330 THEN Zero(neg)
  ELSE LET k == IF x >= 0 THEN 0 ELSE 0 - x
           s == IF x >= 0 \/ Len(N) - k >= 19 THEN 0 ELSE 4 * (k + 19 - Len(N))
           M == IF x >= 0 THEN TimesPow10(N, x) ELSE TimesPow2(N, s)
           q == IF Len(M) > k THEN Canon(SubSeq(M, 1, Len(M) - k)) ELSE <<0>>
           sticky == \E j \in (Len(M) - k + 1)..Len(M) : j >= 1 /\ M[j] # 0
       IN Pack(neg, Round(q, 0 - s, sticky))

\* float() reads an exponent of more than 9 digits (leading zeros aside) as
\* this one (MAX_ABS_EXP of CPython's strtod)
MaxAbsExp == 1100000000

\* float(): the exponent written with the digits E (canonical)
Exponent(E) == IF Len(E) > 9 THEN MaxAbsExp ELSE SmallNat(E)

\* Rust's f64 parser, which pydantic runs: digits are added to the exponent
\* only while it is below 65536, the digits after that are read and ignored
RustExponent(E) ==
  IF Len(E) <= 5 THEN SmallNat(E)
  ELSE LET v5 == SmallNat(SubSeq(E, 1, 5))
       IN IF v5 >= 65536 THEN v5 ELSE SmallNat(SubSeq(E, 1, 6))

\* float() refuses a literal of more digits, or of more digits after the
\* ".", than this (MAX_DIGITS of CPython's strtod)
MaxDigits == 1000000000

\* the number of digits of a literal with the digits ip before and fp after
\* the ".", as float() counts them: the leading zeros do not count, those of
\* fp only when ip has no other digit
CountedDigits(ip, fp) ==
  LET lead(s) == IF \A k \in 1..Len(s) : s[k] = 48 THEN Len(s)
                 ELSE (CHOOSE k \in 1..Len(s) :
                         s[k] # 48 /\ \A j \in 1..(k - 1) : s[j] = 48) - 1
  IN IF lead(ip) = Len(ip) THEN Len(fp) - lead(fp)
     ELSE Len(ip) - lead(ip) + Len(fp)

\* the literal of float() after the sign: ASCII digits with single "_"
\* between them, "." and an exponent.  ok tells whether it is one; N and x
\* give its value N * 10^x.
DecimalLiteral(body) ==
  LET b    == WithoutUnderscores(body)
      epos == FirstOf(b, {101, 69})
      mant == IF epos = 0 THEN b ELSE SubSeq(b, 1, epos - 1)
      ex   == IF epos = 0 THEN <<>> ELSE SubSeq(b, epos + 1, Len(b))
      dot  == DotAt(mant)
      ip   == IF dot = 0 THEN mant ELSE SubSeq(mant, 1, dot - 1)
      fp   == IF dot = 0 THEN <<>> ELSE SubSeq(mant, dot + 1, Len(mant))
      eneg == ex # <<>> /\ ex[1] = 45
      ed   == IF ex # <<>> /\ ex[1] \in {43, 45} THEN Tail(ex) ELSE ex
      X    == IF AllDigits(ed) THEN Exponent(Canon(DigitsOf(ed))) ELSE 0
  IN [ok |-> /\ UnderscoresOk(body)
             /\ AllDigits(ip) /\ AllDigits(fp) /\ Len(ip) + Len(fp) > 0
             /\ CountedDigits(ip, fp) <= MaxDigits /\ Len(fp) <= MaxDigits
             /\ epos # 0 => (ed # <<>> /\ AllDigits(ed)),
      N  |-> IF AllDigits(ip \o fp) THEN Canon(DigitsOf(ip \o fp)) ELSE <<0>>,
      x  |-> (IF epos = 0 THEN 0 ELSE IF eneg THEN 0 - X ELSE X) - Len(fp)]

\* the literal of Rust's f64 parser after the sign: the same without "_"
RustLiteral(b) ==
  LET epos == FirstOf(b, {101, 69})
      mant == IF epos = 0 THEN b ELSE SubSeq(b, 1, epos - 1)
      ex   == IF epos = 0 THEN <<>> ELSE SubSeq(b, epos + 1, Len(b))
      dot  == DotAt(mant)
      ip   == IF dot = 0 THEN mant ELSE SubSeq(mant, 1, dot - 1)
      fp   == IF dot = 0 THEN <<>> ELSE SubSeq(mant, dot + 1, Len(mant))
      eneg == ex # <<>> /\ ex[1] = 45
      ed   == IF ex # <<>> /\ ex[1] \in {43, 45} THEN Tail(ex) ELSE ex
      X    == IF AllDigits(ed) THEN RustExponent(Canon(DigitsOf(ed))) ELSE 0
  IN [ok |-> /\ AllDigits(ip) /\ AllDigits(fp) /\ Len(ip) + Len(fp) > 0
             /\ epos # 0 => (ed # <<>> /\ AllDigits(ed)),
      N  |-> IF AllDigits(ip \o fp) THEN Canon(DigitsOf(ip \o fp)) ELSE <<0>>,
      x  |-> (IF epos = 0 THEN 0 ELSE IF eneg THEN 0 - X ELSE X) - Len(fp)]

Word_inf      == <<105, 110, 102>>
Word_infinity == <<105, 110, 102, 105, 110, 105, 116, 121>>
Word_nan      == <<110, 97, 110>>

\* the outcome of reading the literal lit with the sign neg: its double, or
\* ok = FALSE when it is no literal
LiteralValue(neg, lit) ==
  IF lit.ok THEN [ok |-> TRUE, val |-> ToDouble(neg, lit.N, lit.x)]
  ELSE [ok |-> FALSE, val |-> NaN]

\* the number a str of ASCII characters and whitespace stands for in
\* float(): the whitespace around it is ignored, then an optional sign and
\* "inf", "infinity", "nan" (in any case) or a decimal literal.  ok = FALSE
\* when it is none of these (ValueError).
AsciiFloat(s) ==
  LET t    == StripOf(s, NumberWhitespace)
      neg  == t # <<>> /\ t[1] = 45
      body == IF t # <<>> /\ t[1] \in {43, 45} THEN Tail(t) ELSE t
      low  == [k \in 1..Len(body) |-> Lower(body[k])]
  IN IF low \in {Word_inf, Word_infinity} THEN [ok |-> TRUE, val |-> Inf(neg)]
     ELSE IF low = Word_nan THEN [ok |-> TRUE, val |-> NaN]
     ELSE LiteralValue(neg, DecimalLiteral(body))

\* float(s): every Unicode decimal digit counts as its ASCII digit
FloatOf(s) ==
  AsciiFloat([k \in 1..Len(s) |-> IF s[k] \in Digit THEN 48 + DigitVal(s[k]) ELSE s[k]])

\* ------------------------------------------------------------------------
\* pydantic's coercion of a str to a float or an int field (pydantic-core)
\* ------------------------------------------------------------------------
\* Rust's str::parse::<f64>: an optional sign, then "inf", "infinity", "nan"
\* (in any case) or a literal; no whitespace, no "_", ASCII digits only
RustFloat(t) ==
  LET neg  == t # <<>> /\ t[1] = 45
      body == IF t # <<>> /\ t[1] \in {43, 45} THEN Tail(t) ELSE t
      low  == [k \in 1..Len(body) |-> Lower(body[k])]
  IN IF low \in {Word_inf, Word_infinity} THEN [ok |-> TRUE, val |-> Inf(neg)]
     ELSE IF low = Word_nan THEN [ok |-> TRUE, val |-> NaN]
     ELSE LiteralValue(neg, RustLiteral(body))

\* strip_underscores: s without its "_", or None when s has none, begins or
\* ends with one or has two in a row
StripUnderscores(s) ==
  IF \/ s = <<>> \/ s[1] = 95 \/ s[Len(s)] = 95
     \/ ~ \E k \in 1..Len(s) : s[k] = 95
     \/ \E k \in 1..(Len(s) - 1) : s[k] = 95 /\ s[k + 1] = 95
  THEN Nothing
  ELSE Some(WithoutUnderscores(s))

\* the outcome first of a parse, or the outcome second when first failed
OrElse(first, second) == IF first.ok THEN first ELSE second

\* a str given to a float field: the trimmed str is parsed; when that fails
\* the untrimmed str without its "_" is.  ok = FALSE is ValidationError.
FloatField(s) ==
  LET u == StripUnderscores(s)
  IN OrElse(RustFloat(StripOf(s, NumberWhitespace)),
            IF u = Nothing THEN [ok |-> FALSE, val |-> NaN] ELSE RustFloat(Get(u)))

\* an int of more characters than this, sign included, is refused
\* (int_parsing_size)
MaxIntDigits == 4300

\* strip_leading_zeros: s from its first character that is no leading "0"
\* or "_" (a "-" counts as one); None when s cannot be a number
StripLeadingZeros(s) ==
  IF s = <<>> THEN Nothing
  ELSE IF s[1] \in 49..57 \/ s[1] = 45 THEN Some(s)
  ELSE IF s[1] # 48 THEN Nothing
  ELSE LET stops == {k \in 2..Len(s) : s[k] \notin {48, 95}}
       IN IF stops = {} THEN Some(SubSeq(s, Len(s), Len(s)))
          ELSE LET i == Min(stops)
               IN IF s[i] \in 49..57 \/ s[i] = 45 THEN Some(SubSeq(s, i, Len(s)))
                  ELSE IF s[i] = 46 THEN Some(SubSeq(s, i - 1, Len(s)))
                  ELSE Nothing

\* strip_decimal_zeros: s without a trailing "." and zeros; None when
\* something else, or nothing, follows the "."
StripDecimalZeros(s) ==
  LET dot == DotAt(s)
  IN IF dot = 0 THEN Some(s)
     ELSE IF dot < Len(s) /\ \A k \in (dot + 1)..Len(s) : s[k] = 48
          THEN Some(SubSeq(s, 1, dot - 1))
     ELSE Nothing

\* s begins with the character c
StartsWith(s, c) == s # <<>> /\ s[1] = c

\* clean_int_str on the trimmed str t: a leading "+" is dropped and a "-" is
\* set aside (None when another sign follows), then the leading zeros, the
\* decimal zeros and the "_" are taken away and the "-" is put back; None
\* when nothing was taken away
CleanIntStr(t) ==
  LET s0   == IF StartsWith(t, 43) THEN Tail(t) ELSE t
      neg  == StartsWith(s0, 45)
      s1   == IF neg THEN Tail(s0) ELSE s0
      sign == IF neg THEN <<45>> ELSE <<>>
      s2   == StripLeadingZeros(s1)
      s3   == IF s2 = Nothing THEN Nothing ELSE StripDecimalZeros(Get(s2))
      u    == IF s3 = Nothing THEN Nothing ELSE StripUnderscores(Get(s3))
  IN IF StartsWith(t, 43) /\ neg THEN Nothing
     ELSE IF neg /\ (StartsWith(s1, 45) \/ StartsWith(s1, 43)) THEN Nothing
     ELSE IF s3 = Nothing THEN Nothing
     ELSE IF u # Nothing THEN Some(sign \o Get(u))
     ELSE IF Len(Get(s3)) = Len(t) THEN Nothing
     ELSE Some(sign \o Get(s3))

\* the text that is parsed as an int: the cleaned str, or the trimmed one
IntText(s) ==
  LET t == StripOf(s, NumberWhitespace)
      c == CleanIntStr(t)
  IN IF c = Nothing THEN t ELSE Get(c)

\* the parse of str as an integer: an optional sign and ASCII digits, no
\* "_".  digits are the characters after the sign.
RustInt(str) ==
  LET body == IF str # <<>> /\ str[1] \in {43, 45} THEN Tail(str) ELSE str
  IN [ok     |-> body # <<>> /\ AllDigits(body),
      neg    |-> str # <<>> /\ str[1] = 45,
      digits |-> body]

\* the text str parsed as an int after the check of its length: ok = FALSE
\* is ValidationError, val is the int otherwise
IntOf(str) ==
  LET p   == RustInt(str)
      mag == Canon(DigitsOf(p.digits))
  IN [ok  |-> Len(str) <= MaxIntDigits /\ p.ok,
      val |-> [sign |-> IF p.neg /\ mag # <<0>> THEN 0 - 1 ELSE 1, mag |-> mag]]

\* a str given to an int field
IntField(s) == IntOf(IntText(s))

\* the str is accepted by an int field
ValidInt(s) == IntField(s).ok

\* the int an accepted str stands for
ToInt(s) == IntField(s).val

\* ------------------------------------------------------------------------
\* parse_to_lifting_log
\* ------------------------------------------------------------------------
LitSet   == <<83, 101, 116, 32>>
LitColon == <<32, 58, 32>>
LitX     == <<120>>

\* s holds the literal lit at position i
HasLiteral(s, i, lit) ==
  /\ i + Len(lit) - 1 <= Len(s)
  /\ \A k \in 1..Len(lit) : s[i + k - 1] = lit[k]

\* \d+ is greedy: the position after the longest run of digits from i
DigitRunEnd(s, i) ==
  LET stops == {j \in i..Len(s) : s[j] \notin Digit}
  IN IF stops = {} THEN Max({i, Len(s) + 1}) ELSE Min(stops)

\* the pattern with a signed set number,  Set (-?\d+) : (\d+)x(\d+)
MatchAt_signed(s, i) ==
  LET a  == i + Len(LitSet)
      a2 == IF a <= Len(s) /\ s[a] = 45 THEN a + 1 ELSE a
      b  == DigitRunEnd(s, a2)
      c  == b + Len(LitColon)
      d  == DigitRunEnd(s, c)
      e  == d + Len(LitX)
      f  == DigitRunEnd(s, e)
  IN IF /\ HasLiteral(s, i, LitSet) /\ b > a2
        /\ HasLiteral(s, b, LitColon) /\ d > c
        /\ HasLiteral(s, d, LitX) /\ f > e
     THEN [ok |-> TRUE, end |-> f,
           groups |-> <<SubSeq(s, a, b - 1), SubSeq(s, c, d - 1), SubSeq(s, e, f - 1)>>]
     ELSE [ok |-> FALSE, end |-> i, groups |-> <<>>]

\* one match of the pattern  Set (\d+) : (\d+)x(\d+)  anchored at position i.
\* Each group is followed by a non-digit literal or by nothing, so the greedy
\* run is the only one that can match.
MatchAt(s, i) ==
  LET a == i + Len(LitSet)
      b == DigitRunEnd(s, a)
      c == b + Len(LitColon)
      d == DigitRunEnd(s, c)
      e == d + Len(LitX)
      f == DigitRunEnd(s, e)
  IN IF /\ HasLiteral(s, i, LitSet) /\ b > a
        /\ HasLiteral(s, b, LitColon) /\ d > c
        /\ HasLiteral(s, d, LitX) /\ f > e
     THEN [ok |-> TRUE, end |-> f,
           groups |-> <<SubSeq(s, a, b - 1), SubSeq(s, c, d - 1), SubSeq(s, e, f - 1)>>]
     ELSE [ok |-> FALSE, end |-> i, groups |-> <<>>]

\* pattern.findall(s): the groups of every non-overlapping match, scanning
\* from position i to the right.  A match starts with "Set ", so the scan
\* goes from one "Set " to the next.
RECURSIVE findall(_, _)
findall(s, i) ==
  LET starts == {j \in i..Len(s) : s[j] = LitSet[1] /\ HasLiteral(s, j, LitSet)}
  IN IF starts = {} THEN <<>>
     ELSE LET j == Min(starts)
              m == MatchAt(s, j)
          IN IF m.ok THEN <<m.groups>> \o findall(s, m.end)
             ELSE findall(s, j + 1)

\* the three fields validate, so that LiftingLog(...) raises no ValidationError
LiftingLogValid(set_, weight, reps) ==
  ValidInt(set_) /\ FloatField(weight).ok /\ ValidInt(reps)

\* LiftingLog(set_number=set_, weight=weight, reps=reps) on the captured
\* strings: pydantic coerces them to int, float and int
LiftingLog(set_, weight, reps) ==
  [set_number |-> ToInt(set_), weight |-> FloatField(weight).val, reps |-> ToInt(reps)]

\* the list the call returns when no LiftingLog(...) raises
parse_to_lifting_log(text) ==
  LET ms == findall(text, 1)
  IN [k \in 1..Len(ms) |-> LiftingLog(ms[k][1], ms[k][2], ms[k][3])]

\* some LiftingLog(...) of the list comprehension raises ValidationError
parse_raises(text) ==
  LET ms == findall(text, 1)
  IN \E k \in 1..Len(ms) : ~ LiftingLogValid(ms[k][1], ms[k][2], ms[k][3])

\* ------------------------------------------------------------------------
\* Input texts of parse_to_lifting_log: tokens written one after the other
\* ------------------------------------------------------------------------
\* a token is [kind, lead, n, w, r]: n, w and r are the digits written for
\* the set number, the weight and the reps (leading zeros allowed); the
\* digits n of the set number come after lead.times times the digit
\* lead.digit
Tok(kind, n, w, r) ==
  [kind |-> kind, lead |-> [digit |-> 0, times |-> 0], n |-> n, w |-> w, r |-> r]

\* digits written in the decimal digit system whose zero is the code point z
Written(ds, z) == [k \in 1..Len(ds) |-> z + ds[k]]

\* the token t with as many digits d before its set number as an int field
\* accepts
Long(t, d) == [t EXCEPT !.lead = [digit |-> d, times |-> MaxIntDigits]]

\* the digits written for the set number of t
SetNumber(t) == [k \in 1..t.lead.times |-> t.lead.digit] \o t.n

\* the set number of t written in the decimal digit system whose zero is z
WrittenSetNumber(t, z) == [k \in 1..t.lead.times |-> z + t.lead.digit] \o Written(t.n, z)

\* the text of one token
Render(t) ==
  LET n == WrittenSetNumber(t, 48)
      w == Written(t.w, 48)
      r == Written(t.r, 48)
  IN CASE t.kind = "ok"         -> LitSet \o n \o LitColon \o w \o LitX \o r
       [] t.kind = "arabic"     -> LitSet \o WrittenSetNumber(t, 1632) \o LitColon
                                     \o Written(t.w, 1632) \o LitX \o Written(t.r, 1632)
       [] t.kind = "fullwidth"  -> LitSet \o n \o LitColon \o Written(t.w, 65296) \o LitX \o r
       [] t.kind = "wrongsep"   -> LitSet \o n \o <<32, 45, 32>> \o w \o LitX \o r
       [] t.kind = "nocolon"    -> LitSet \o n \o <<32>> \o w \o LitX \o r
       [] t.kind = "extraspace" -> LitSet \o n \o <<32, 58, 32, 32>> \o w \o LitX \o r
       [] t.kind = "decimal"    -> LitSet \o n \o LitColon \o w \o <<46, 53>> \o LitX \o r
       [] t.kind = "negative"   -> LitSet \o <<45>> \o n \o LitColon \o w \o LitX \o r
       [] t.kind = "junk"       -> <<110, 111, 32, 109, 97, 116, 99, 104, 101, 115, 32, 104, 101, 114, 101>>

\* 2^53 + 1, the first natural number that is no double
TwoPow53Plus1 == Inc(TwoPow53)

\* tokens of the exact shape  Set <n> : <w>x<r>  in ASCII digits; the last
\* two have a set number of one digit more than an int field accepts, the
\* number 3 after zeros and a number of nines
WellFormedTokens ==
  {Tok("ok", <<1>>, <<7, 0>>, <<5>>),
   Tok("ok", <<0>>, <<0>>, <<0>>), Tok("ok", <<1, 2>>, <<2, 2, 5>>, <<1, 0>>),
   Tok("ok", <<4>>, TwoPow53Plus1, <<5>>),
   Long(Tok("ok", <<3>>, <<0, 7, 0>>, <<0, 5>>), 0),
   Long(Tok("ok", <<9>>, <<7, 0>>, <<5>>), 9)}

\* tokens of that shape written with other decimal digits
ForeignDigitTokens ==
  {Tok("arabic", <<1>>, <<2>>, <<3>>), Tok("fullwidth", <<1>>, <<7, 0>>, <<5>>)}

MalformedTokens ==
  {Tok(k, <<1>>, <<7, 0>>, <<5>>) :
     k \in {"wrongsep", "nocolon", "extraspace", "decimal", "negative", "junk"}}

Tokens == WellFormedTokens \cup ForeignDigitTokens \cup MalformedTokens

Separators == {<<>>, <<32>>, <<10>>}

TokenSeqs == UNION {[1..k -> Tokens] : k \in 0..MaxTokens}

\* the tokens of ts written one after the other with s between them
RECURSIVE Join(_, _)
Join(ts, s) ==
  IF ts = <<>> THEN <<>>
  ELSE IF Len(ts) = 1 THEN Render(ts[1])
  ELSE Render(ts[1]) \o s \o Join(Tail(ts), s)

\* ------------------------------------------------------------------------
\* A call of parse_to_lifting_log on its own
\* ------------------------------------------------------------------------
ClientIdle ==
  /\ username = None /\ date = None /\ pc = "idle"
  /\ session = "none" /\ requests = <<>> /\ response = Nothing /\ soup = Nothing
  /\ workout = Nothing /\ exercises = Nothing /\ exercise_blocks = Nothing /\ idx = 0
  /\ result = Nothing /\ error = None

ParseInit ==
  /\ tokens \in TokenSeqs
  /\ sep \in Separators
  /\ liftinglogs = Join(tokens, sep)
  /\ logs = Nothing
  /\ ppc = "call"
  /\ url_config = None /\ optimized = FALSE
  /\ ClientIdle

\* the whole call: findall, then one LiftingLog per match
ParseCall ==
  /\ ppc = "call"
  /\ IF parse_raises(liftinglogs)
     THEN /\ logs' = Nothing
          /\ ppc' = "raised"
     ELSE /\ logs' = Some(parse_to_lifting_log(liftinglogs))
          /\ ppc' = "done"
  /\ UNCHANGED <<tokens, sep, liftinglogs>>
  /\ UNCHANGED clientVars

ParseNext == ParseCall

ParseSpec == ParseInit /\ [][ParseNext]_vars

\* ------------------------------------------------------------------------
\* The remote site: pages as the element tree BeautifulSoup builds
\* ------------------------------------------------------------------------
\* a page is [has_loglist |-> it holds an element with id logList1,
\* exercises |-> the exercise-block elements inside it, in document order];
\* an exercise block is [has_bar |-> it holds a fixedLogBar, blocks |-> the
\* 'fixedLogBarBlock align-top' elements inside it, in document order]; such
\* a sub-block is [links |-> the texts of its <a> elements, text |-> its
\* get_text()].  URLs, user names and dates are plain strings.
USER_BASE_URL == "https://www.jefit.com/user"
LOGS_BASE_URL == "https://www.jefit.com/members/user-logs/log/"

JEFITClientConfig(user_base_url, logs_base_url) ==
  [user_base_url |-> user_base_url, logs_base_url |-> logs_base_url]

DEFAULT_JEFIT_CONFIG == JEFITClientConfig(USER_BASE_URL, LOGS_BASE_URL)

\* the configurations a client is constructed with
Configs ==
  {DEFAULT_JEFIT_CONFIG,
   JEFITClientConfig("http://localhost:8000/user", "http://localhost:8000/logs/")}

BenchPress == <<66, 101, 110, 99, 104, 32, 80, 114, 101, 115, 115>>
Squat      == <<83, 113, 117, 97, 116>>

Block(links, text) == [links |-> links, text |-> text]

Picture     == Block(<<>>, <<>>)
NameBench   == Block(<<<<13, 10, 28, 32, 66, 101, 110, 99, 104, 32, 80, 114, 101, 115, 115, 160, 10>>>>, <<13, 10, 28, 32, 66, 101, 110, 99, 104, 32, 80, 114, 101, 115, 115, 160, 10>>)
NameSquat   == Block(<<Squat, BenchPress>>, Squat \o BenchPress)
NameNoLink  == Block(<<>>, Squat)
Orm225      == Block(<<>>, <<50, 50, 53>>)
Orm102_5    == Block(<<>>, <<32, 49, 48, 50, 46, 53, 48, 10>>)
OrmArabic   == Block(<<>>, Written(<<1, 0, 0>>, 1632))
OrmNA       == Block(<<>>, <<78, 47, 65>>)
LogsBench   == Block(<<>>, Join(<<Tok("ok", <<1>>, <<2, 2, 5>>, <<5>>),
                                  Tok("ok", <<2>>, <<2, 2, 5>>, <<5>>)>>, <<32>>))
LogsSquat   == Block(<<>>, Join(<<Tok("ok", <<2>>, <<1, 0, 0>>, <<8>>),
                                  Tok("decimal", <<3>>, <<1, 0, 2>>, <<5>>),
                                  Tok("ok", <<1>>, <<1, 0, 0>>, <<1, 0>>),
                                  Tok("ok", <<0>>, <<0>>, <<0>>)>>, <<10>>))
\* a set number written with more zeros before it than an int field has digits
LogsPadded  == Block(<<>>, Render(Long(Tok("ok", <<3>>, <<0, 7, 0>>, <<0, 5>>), 0)))
LogsArabic  == Block(<<>>, Render(Tok("arabic", <<1>>, <<2>>, <<3>>)))
LogsNone    == Block(<<>>, <<110, 111, 110, 101>>)

Exercise(blocks) == [has_bar |-> TRUE, blocks |-> blocks]

BenchBlocks  == <<Picture, NameBench, Orm225, LogsBench>>
SquatBlocks  == <<Picture, NameSquat, Orm102_5, LogsSquat>>
RestBlocks   == <<Picture, NameSquat, OrmArabic, LogsNone>>
PaddedBlocks == <<Picture, NameBench, Orm225, LogsPadded>>

WellFormedExercises ==
  {Exercise(BenchBlocks), Exercise(SquatBlocks), Exercise(RestBlocks),
   Exercise(PaddedBlocks)}

\* exercise blocks whose fixed log bar does not hold 4 sub-blocks
MiscountedExercises ==
  {Exercise(SubSeq(BenchBlocks, k, 4)) : k \in 2..5} \cup {Exercise(BenchBlocks \o <<Picture>>)}

\* exercise blocks that break another assumption of the extraction
BrokenExercises ==
  {[has_bar |-> FALSE, blocks |-> <<>>],
   Exercise(<<Picture, NameNoLink, Orm225, LogsBench>>),
   Exercise(<<Picture, NameBench, OrmNA, LogsBench>>),
   Exercise(<<Picture, NameBench, Orm225, LogsArabic>>)}

ExerciseElements == WellFormedExercises \cup MiscountedExercises \cup BrokenExercises

Pages ==
  {[has_loglist |-> FALSE, exercises |-> <<>>]}
    \cup {[has_loglist |-> TRUE, exercises |-> es] :
            es \in UNION {[1..k -> ExerciseElements] : k \in 0..MaxExercises}}

StatusCodes == {200, 302, 404, 500}

Usernames == {"wstipp", "alice"}

Dates == {"2023-01-14"}

\* ------------------------------------------------------------------------
\* JEFITClient.get_workout_from_date
\* ------------------------------------------------------------------------
\* only a server error counts as an error status
IsError_serverOnly(status_code) == status_code \div 100 = 5

\* httpx: raise_for_status raises on every status that is not 2xx
IsError(status_code) == status_code \div 100 # 2

ExerciseBlock(name, onerepmax, lifting) ==
  [exercise_name |-> name, one_rep_max |-> onerepmax, lifting_logs |-> lifting]

\* what a fixed log bar that does not hold 4 sub-blocks raises: the assert,
\* or the unpacking into four names when asserts are dropped
MiscountError == IF optimized THEN "ValueError" ELSE "AssertionError"

\* the loop body with  assert len(blocks) >= 4  and the first four blocks taken
ExtractOutcome_atLeastFour(exercise) ==
  IF ~ exercise.has_bar
  THEN [exc |-> "AttributeError", record |-> Nothing]
  ELSE LET blocks == exercise.blocks
       IN IF Len(blocks) < 4
          THEN [exc |-> MiscountError, record |-> Nothing]
          ELSE LET name        == blocks[2]
                   onerepmax   == blocks[3]
                   liftingtext == blocks[4].text
               IN IF name.links = <<>>
                  THEN [exc |-> "AttributeError", record |-> Nothing]
                  ELSE IF ~ FloatOf(onerepmax.text).ok
                  THEN [exc |-> "ValueError", record |-> Nothing]
                  ELSE IF parse_raises(liftingtext)
                  THEN [exc |-> "ValidationError", record |-> Nothing]
                  ELSE [exc |-> None,
                        record |-> Some(ExerciseBlock(Strip(name.links[1]),
                                                      FloatOf(onerepmax.text).val,
                                                      parse_to_lifting_log(liftingtext)))]

\* the loop body with the name taken from the last link and not trimmed
ExtractOutcome_rawLastLink(exercise) ==
  IF ~ exercise.has_bar
  THEN [exc |-> "AttributeError", record |-> Nothing]
  ELSE LET blocks == exercise.blocks
       IN IF Len(blocks) # 4
          THEN [exc |-> MiscountError, record |-> Nothing]
          ELSE LET name        == blocks[2]
                   onerepmax   == blocks[3]
                   liftingtext == blocks[4].text
               IN IF name.links = <<>>
                  THEN [exc |-> "AttributeError", record |-> Nothing]
                  ELSE IF ~ FloatOf(onerepmax.text).ok
                  THEN [exc |-> "ValueError", record |-> Nothing]
                  ELSE IF parse_raises(liftingtext)
                  THEN [exc |-> "ValidationError", record |-> Nothing]
                  ELSE [exc |-> None,
                        record |-> Some(ExerciseBlock(name.links[Len(name.links)],
                                                      FloatOf(onerepmax.text).val,
                                                      parse_to_lifting_log(liftingtext)))]

\* the body of the for loop on one exercise element: the exception it raises
\* (None if it raises none) and the record it appends
ExtractOutcome(exercise) ==
  IF ~ exercise.has_bar
  THEN [exc |-> "AttributeError", record |-> Nothing]
  ELSE LET blocks == exercise.blocks
       IN IF Len(blocks) # 4
          THEN [exc |-> MiscountError, record |-> Nothing]
          ELSE LET name        == blocks[2]
                   onerepmax   == blocks[3]
                   liftingtext == blocks[4].text
               IN IF name.links = <<>>
                  THEN [exc |-> "AttributeError", record |-> Nothing]
                  ELSE IF ~ FloatOf(onerepmax.text).ok
                  THEN [exc |-> "ValueError", record |-> Nothing]
                  ELSE IF parse_raises(liftingtext)
                  THEN [exc |-> "ValidationError", record |-> Nothing]
                  ELSE [exc |-> None,
                        record |-> Some(ExerciseBlock(Strip(name.links[1]),
                                                      FloatOf(onerepmax.text).val,
                                                      parse_to_lifting_log(liftingtext)))]

ParseIdle ==
  /\ tokens = <<>> /\ sep = <<>> /\ liftinglogs = <<>> /\ logs = Nothing /\ ppc = "idle"

\* JEFITClient(url_config), in an interpreter with or without asserts
Init ==
  /\ ParseIdle
  /\ ClientIdle
  /\ url_config \in Configs
  /\ optimized \in BOOLEAN

\* the exception exc leaves get_workout_from_date: nothing is returned
Raise(exc) ==
  /\ pc' = "failed"
  /\ error' = exc
  /\ result' = Nothing

\* client.get_workout_from_date(username, date), in a run that constructed
\* a client
Call ==
  /\ pc = "idle"
  /\ ppc = "idle"
  /\ \E u \in Usernames, d \in Dates :
       /\ username' = u
       /\ date' = d
  /\ pc' = "enter_with"
  /\ UNCHANGED <<url_config, optimized, session, requests, response, soup, workout,
                 exercises, exercise_blocks, idx, result, error>>
  /\ UNCHANGED parseVars

\* with httpx.Client() as session:
OpenSession ==
  /\ pc = "enter_with"
  /\ session' = "open"
  /\ pc' = "get"
  /\ UNCHANGED <<url_config, optimized, username, date, requests, response, soup,
                 workout, exercises, exercise_blocks, idx, result, error>>
  /\ UNCHANGED parseVars

\* response = session.get(self.url_config.logs_base_url,
\*                        params={"xid": username, "dd": date}):
\* the request goes out; the transport fails or the site answers
SessionGet ==
  /\ pc = "get"
  /\ requests' = Append(requests, [method |-> "GET", url |-> url_config.logs_base_url,
                                   params |-> [xid |-> username, dd |-> date],
                                   session |-> session])
  /\ \/ /\ pc' = "exit_with_raised"
        /\ UNCHANGED response
     \/ \E code \in StatusCodes, page \in Pages :
          /\ response' = Some([status_code |-> code, content |-> page])
          /\ pc' = "exit_with"
  /\ UNCHANGED <<url_config, optimized, username, date, session, soup, workout,
                 exercises, exercise_blocks, idx, result, error>>
  /\ UNCHANGED parseVars

\* the client closed by a plain session.close() after get, which an
\* exception of get skips
CloseSession_skippedOnRaise ==
  /\ pc \in {"exit_with", "exit_with_raised"}
  /\ IF pc = "exit_with_raised"
     THEN /\ Raise("RequestError")
          /\ UNCHANGED session
     ELSE /\ session' = "closed"
          /\ pc' = "raise_for_status"
          /\ UNCHANGED <<result, error>>
  /\ UNCHANGED <<url_config, optimized, username, date, requests, response, soup,
                 workout, exercises, exercise_blocks, idx>>
  /\ UNCHANGED parseVars

\* the end of the with block, reached normally or by the exception of get
CloseSession ==
  /\ pc \in {"exit_with", "exit_with_raised"}
  /\ session' = "closed"
  /\ IF pc = "exit_with_raised"
     THEN Raise("RequestError")
     ELSE /\ pc' = "raise_for_status"
          /\ UNCHANGED <<result, error>>
  /\ UNCHANGED <<url_config, optimized, username, date, requests, response, soup,
                 workout, exercises, exercise_blocks, idx>>
  /\ UNCHANGED parseVars

\* an error status answered by issuing the request again
RaiseForStatus_retry ==
  /\ pc = "raise_for_status"
  /\ IF IsError(Get(response).status_code)
     THEN pc' = "enter_with"
     ELSE pc' = "parse_html"
  /\ UNCHANGED <<result, error>>
  /\ UNCHANGED <<url_config, optimized, username, date, session, requests, response,
                 soup, workout, exercises, exercise_blocks, idx>>
  /\ UNCHANGED parseVars

\* response.raise_for_status()
RaiseForStatus ==
  /\ pc = "raise_for_status"
  /\ IF IsError(Get(response).status_code)
     THEN Raise("HTTPStatusError")
     ELSE /\ pc' = "parse_html"
          /\ UNCHANGED <<result, error>>
  /\ UNCHANGED <<url_config, optimized, username, date, session, requests, response,
                 soup, workout, exercises, exercise_blocks, idx>>
  /\ UNCHANGED parseVars

\* soup = bs4.BeautifulSoup(response.content, "html.parser")
ParseHtml ==
  /\ pc = "parse_html"
  /\ soup' = Some(Get(response).content)
  /\ pc' = "find_workout"
  /\ UNCHANGED <<url_config, optimized, username, date, session, requests, response,
                 workout, exercises, exercise_blocks, idx, result, error>>
  /\ UNCHANGED parseVars

\* workout = soup.find(id='logList1'): None when the page has no such element
FindWorkout ==
  /\ pc = "find_workout"
  /\ workout' = IF Get(soup).has_loglist THEN Some(Get(soup).exercises) ELSE Nothing
  /\ pc' = "find_exercises"
  /\ UNCHANGED <<url_config, optimized, username, date, session, requests, response,
                 soup, exercises, exercise_blocks, idx, result, error>>
  /\ UNCHANGED parseVars

\* a missing log list taken for a log list without exercise blocks
FindExercises_emptyWhenMissing ==
  /\ pc = "find_exercises"
  /\ exercises' = IF workout = Nothing THEN Some(<<>>) ELSE workout
  /\ exercise_blocks' = Some(<<>>)
  /\ idx' = 1
  /\ pc' = "loop"
  /\ UNCHANGED <<result, error>>
  /\ UNCHANGED <<url_config, optimized, username, date, session, requests, response,
                 soup, workout>>
  /\ UNCHANGED parseVars

\* exercises = workout.findAll('div', class_='exercise-block')
\* exercise_blocks = []
FindExercises ==
  /\ pc = "find_exercises"
  /\ IF workout = Nothing
     THEN /\ Raise("AttributeError")
          /\ UNCHANGED <<exercises, exercise_blocks, idx>>
     ELSE /\ exercises' = workout
          /\ exercise_blocks' = Some(<<>>)
          /\ idx' = 1
          /\ pc' = "loop"
          /\ UNCHANGED <<result, error>>
  /\ UNCHANGED <<url_config, optimized, username, date, session, requests, response,
                 soup, workout>>
  /\ UNCHANGED parseVars

\* the loop body wrapped in try/except: a failing exercise block is skipped
ExtractExercise_skipFailing ==
  /\ pc = "loop"
  /\ idx <= Len(Get(exercises))
  /\ \E out \in {ExtractOutcome(Get(exercises)[idx])} :
        /\ exercise_blocks' = IF out.exc # None THEN exercise_blocks
                              ELSE Some(Append(Get(exercise_blocks), Get(out.record)))
        /\ idx' = idx + 1
        /\ UNCHANGED <<pc, result, error>>
  /\ UNCHANGED <<url_config, optimized, username, date, session, requests, response,
                 soup, workout, exercises>>
  /\ UNCHANGED parseVars

\* one pass of  for exercise in exercises:  the body appends a record or raises
ExtractExercise ==
  /\ pc = "loop"
  /\ idx <= Len(Get(exercises))
  /\ \E out \in {ExtractOutcome(Get(exercises)[idx])} :
        IF out.exc # None
        THEN /\ Raise(out.exc)
             /\ UNCHANGED <<exercise_blocks, idx>>
        ELSE /\ exercise_blocks' = Some(Append(Get(exercise_blocks), Get(out.record)))
             /\ idx' = idx + 1
             /\ UNCHANGED <<pc, result, error>>
  /\ UNCHANGED <<url_config, optimized, username, date, session, requests, response,
                 soup, workout, exercises>>
  /\ UNCHANGED parseVars

\* return exercise_blocks
Return ==
  /\ pc = "loop"
  /\ idx > Len(Get(exercises))
  /\ result' = exercise_blocks
  /\ pc' = "returned"
  /\ UNCHANGED <<url_config, optimized, username, date, session, requests, response,
                 soup, workout, exercises, exercise_blocks, idx, error>>
  /\ UNCHANGED parseVars

Next ==
  \/ Call
  \/ OpenSession
  \/ SessionGet
  \/ CloseSession
  \/ RaiseForStatus
  \/ ParseHtml
  \/ FindWorkout
  \/ FindExercises
  \/ ExtractExercise
  \/ Return

Spec == Init /\ [][Next]_vars

\* the two entry points of the module: a client that is called, or
\* parse_to_lifting_log called on its own
ProgramSpec == (Init \/ ParseInit) /\ [][Next \/ ParseNext]_vars

\* ------------------------------------------------------------------------
\* Properties of parse_to_lifting_log
\* ------------------------------------------------------------------------
\* the int n >= 0 given by its digits
NatInt(ds) == [sign |-> 1, mag |-> Canon(ds)]

\* the finite double m * 2^e
Finite(m, e) == [kind |-> "finite", neg |-> FALSE, m |-> m, e |-> e]

\* the double v is exactly the natural number written w
WeightIs(v, w) ==
  v.kind = "finite" /\ ~ v.neg /\ v.e >= 0 /\ TimesPow2(v.m, v.e) = Canon(w)

\* the double v is a number >= 0
FloatNonNeg(v) == v.kind \in {"finite", "inf"} /\ (v.neg => (v.kind = "finite" /\ v.m = <<0>>))

IsWellFormed(t) == t.kind = "ok"

AllWellFormed == \A k \in 1..Len(tokens) : IsWellFormed(tokens[k])

\* C1: on a text made of k well-formed tokens (any non-negative integers n,
\* w, r) the call returns exactly k records, the i-th carrying the set
\* number, weight and reps of the i-th token, in input order.
C1_RecordsFollowInput ==
  (ppc # "call" /\ AllWellFormed) =>
    /\ ppc = "done"
    /\ Len(Get(logs)) = Len(tokens)
    /\ \A k \in 1..Len(tokens) :
         /\ Get(logs)[k].set_number = NatInt(SetNumber(tokens[k]))
         /\ WeightIs(Get(logs)[k].weight, tokens[k].w)
         /\ Get(logs)[k].reps = NatInt(tokens[k].r)

\* C2: the call never fails; a token that deviates from the exact shape
\* (wrong separator, missing colon, extra whitespace, decimal weight) gives
\* no record, so the number of records is the number of well-formed tokens
\* and a text without any yields the empty sequence.
C2_MalformedTokensIgnored ==
  ppc # "call" =>
    /\ ppc = "done"
    /\ Len(Get(logs)) = Len(SelectSeq(tokens, IsWellFormed))
    /\ (~ \E k \in 1..Len(tokens) : IsWellFormed(tokens[k])) => Get(logs) = <<>>

\* the LiftingLog records the program has handed out: those returned by
\* parse_to_lifting_log called on its own and those inside the records
\* returned by get_workout_from_date
ProducedLogs ==
  (IF logs = Nothing THEN {} ELSE {Get(logs)[k] : k \in 1..Len(Get(logs))})
    \cup (IF result = Nothing THEN {}
          ELSE UNION {{Get(result)[i].lifting_logs[k] :
                         k \in 1..Len(Get(result)[i].lifting_logs)} :
                      i \in 1..Len(Get(result))})

\* C7 as stated: every record has set_number >= 1, weight >= 0, reps >= 0
C7_Original ==
  \A l \in ProducedLogs :
    /\ l.set_number.sign = 1 /\ l.set_number.mag # <<0>>
    /\ FloatNonNeg(l.weight)
    /\ l.reps.sign = 1

\* C7 amended: every record that parse_to_lifting_log or
\* get_workout_from_date produces has set_number >= 0, weight >= 0 and
\* reps >= 0 (the pattern accepts "Set 0", so 1 is not a lower bound of
\* set_number).
C7_FieldsNonNegative ==
  \A l \in ProducedLogs :
    /\ l.set_number.sign = 1
    /\ FloatNonNeg(l.weight)
    /\ l.reps.sign = 1

\* get_workout_from_date returned a record with a set of number 0, weight 0
\* and 0 reps
C7_Witness ==
  /\ pc = "returned"
  /\ \E i \in 1..Len(Get(result)) : \E k \in 1..Len(Get(result)[i].lifting_logs) :
       /\ Get(result)[i].lifting_logs[k].set_number = NatInt(<<0>>)
       /\ Get(result)[i].lifting_logs[k].weight = Zero(FALSE)
       /\ Get(result)[i].lifting_logs[k].reps = NatInt(<<0>>)

\* ------------------------------------------------------------------------
\* Properties of get_workout_from_date
\* ------------------------------------------------------------------------
Finished == pc \in {"returned", "failed"}

\* the page the site answered with
Page == Get(response).content

ExpectedRequest ==
  [method |-> "GET", url |-> url_config.logs_base_url,
   params |-> [xid |-> username, dd |-> date], session |-> "open"]

\* C3: a call issues exactly one HTTP GET, to the configured logs_base_url
\* with xid=username and dd=date, whatever its outcome: never a second
\* request.
C3_ExactlyOneGet ==
  /\ Len(requests) <= 1
  /\ pc \notin {"idle", "enter_with", "get"} => requests = <<ExpectedRequest>>

\* a client with its own configuration failed on a miscounted exercise block
\* with one request issued
C3_Witness ==
  /\ pc = "failed" /\ error = "AssertionError" /\ Len(requests) = 1
  /\ url_config # DEFAULT_JEFIT_CONFIG

\* C4: on a 4xx or 5xx status the call fails with the HTTP error before any
\* HTML parsing or extraction, and returns nothing.
C4_ErrorStatusFailsBeforeParsing ==
  (response # Nothing /\ Get(response).status_code \div 100 \in {4, 5}) =>
    /\ pc \in {"exit_with", "raise_for_status", "failed"}
    /\ soup = Nothing /\ workout = Nothing /\ exercises = Nothing
    /\ exercise_blocks = Nothing /\ result = Nothing
    /\ pc = "failed" => error = "HTTPStatusError"

\* a 404 answer whose page holds a well-formed exercise made the call fail
C4_Witness ==
  /\ pc = "failed" /\ error = "HTTPStatusError"
  /\ Get(response).status_code = 404
  /\ Page.has_loglist /\ Page.exercises = <<Exercise(BenchBlocks)>>

\* the fixed log bar of the exercise block e holds exactly 4 sub-blocks
HasFourBlocks(e) == e.has_bar /\ Len(e.blocks) = 4

\* C5: a record is built only from an exercise block whose fixed log bar
\* holds exactly 4 sub-blocks; on any other count the extraction fails (on
\* the assert, or on the unpacking when asserts are dropped) and returns
\* nothing.
C5_RecordOnlyFromFourBlocks ==
  exercises # Nothing =>
    /\ \A j \in 1..Len(Get(exercise_blocks)) : HasFourBlocks(Get(exercises)[j])
    /\ \A j \in 1..Len(Get(exercises)) :
         (Get(exercises)[j].has_bar /\ Len(Get(exercises)[j].blocks) # 4) =>
           /\ idx <= j
           /\ pc # "returned"
           /\ (Finished /\ idx = j) =>
                (error \in {"AssertionError", "ValueError"} /\ result = Nothing)

\* the extraction failed on an exercise block with 3 sub-blocks
C5_Witness ==
  /\ pc = "failed" /\ error = "AssertionError"
  /\ Len(Get(exercises)[idx].blocks) = 3

\* the records the sample exercise blocks stand for, written out by hand:
\* 225 = 225 * 2^0, 102.5 = 205 * 2^-1, 100 = 25 * 2^2, 70 = 35 * 2^1
BenchRecord ==
  [exercise_name |-> BenchPress,
   one_rep_max   |-> Finite(<<2, 2, 5>>, 0),
   lifting_logs  |->
     <<[set_number |-> NatInt(<<1>>), weight |-> Finite(<<2, 2, 5>>, 0), reps |-> NatInt(<<5>>)],
       [set_number |-> NatInt(<<2>>), weight |-> Finite(<<2, 2, 5>>, 0), reps |-> NatInt(<<5>>)]>>]

\* the token with the decimal weight gives no set
SquatRecord ==
  [exercise_name |-> Squat,
   one_rep_max   |-> Finite(<<2, 0, 5>>, 0 - 1),
   lifting_logs  |->
     <<[set_number |-> NatInt(<<2>>), weight |-> Finite(<<2, 5>>, 2), reps |-> NatInt(<<8>>)],
       [set_number |-> NatInt(<<1>>), weight |-> Finite(<<2, 5>>, 2), reps |-> NatInt(<<1, 0>>)],
       [set_number |-> NatInt(<<0>>), weight |-> Finite(<<0>>, 0), reps |-> NatInt(<<0>>)]>>]

\* a one rep max in Arabic-Indic digits and a text without sets
RestRecord ==
  [exercise_name |-> Squat, one_rep_max |-> Finite(<<2, 5>>, 2), lifting_logs |-> <<>>]

\* the zeros before the set number 3 do not count
PaddedRecord ==
  [exercise_name |-> BenchPress,
   one_rep_max   |-> Finite(<<2, 2, 5>>, 0),
   lifting_logs  |->
     <<[set_number |-> NatInt(<<3>>), weight |-> Finite(<<3, 5>>, 1), reps |-> NatInt(<<5>>)]>>]

\* the record of the sample exercise block e
SampleRecord(e) ==
  CASE e = Exercise(BenchBlocks)  -> BenchRecord
    [] e = Exercise(SquatBlocks)  -> SquatRecord
    [] e = Exercise(RestBlocks)   -> RestRecord
    [] e = Exercise(PaddedBlocks) -> PaddedRecord

\* C6: a successful call on a page with m exercise blocks returns m records,
\* the i-th built from the i-th block: trimmed text of the first link of the
\* 2nd sub-block, value of the 3rd sub-block's text, parsed sets of the 4th;
\* for each sample block that is the record written out by hand (Bench Press,
\* 225.0, [(1,225,5),(2,225,5)] for the block of the example).
C6_OneRecordPerBlockInOrder ==
  pc = "returned" =>
    /\ Len(Get(result)) = Len(Page.exercises)
    /\ \A i \in 1..Len(Page.exercises) :
         /\ Page.exercises[i] \in WellFormedExercises
         /\ Get(result)[i] = SampleRecord(Page.exercises[i])

\* two exercises were returned in document order, squat (102.5) before bench
\* press
C6_Witness ==
  /\ pc = "returned" /\ Len(Get(result)) = 2
  /\ Get(result)[1] = SquatRecord
  /\ Get(result)[2] = BenchRecord

\* C8: a structural violation in any exercise block aborts the whole call:
\* the caller gets the failure and none of the records built before it.
C8_NoPartialResult ==
  /\ pc = "failed" => result = Nothing
  /\ (Finished /\ exercises # Nothing
        /\ \E j \in 1..Len(Get(exercises)) : ~ HasFourBlocks(Get(exercises)[j]))
       => (pc = "failed" /\ result = Nothing)

\* the second block was miscounted after a record was built from the first
C8_Witness ==
  /\ pc = "failed" /\ error = MiscountError /\ idx = 2
  /\ Len(Get(exercise_blocks)) = 1 /\ result = Nothing

\* C9: with a success status, a page without the log list makes the call
\* fail with the None dereference instead of returning an empty sequence; a
\* log list without exercise blocks returns the empty sequence.
C9_MissingLogListFails ==
  (Finished /\ response # Nothing /\ Get(response).status_code \div 100 = 2) =>
    /\ ~ Page.has_loglist => (pc = "failed" /\ error = "AttributeError" /\ result = Nothing)
    /\ (Page.has_loglist /\ Page.exercises = <<>>) =>
         (pc = "returned" /\ result = Some(<<>>) /\ error = None)

\* the call failed on a page without the log list
C9_Witness ==
  /\ pc = "failed" /\ error = "AttributeError"
  /\ response # Nothing /\ ~ Page.has_loglist /\ workout = Nothing

\* C10: the HTTP client is open only around the request and released on
\* every outcome: it is closed when the status is checked, while the page is
\* parsed and once the call has returned or failed.
C10_ClientReleased ==
  /\ session = "open" <=> pc \in {"get", "exit_with", "exit_with_raised"}
  /\ pc \in {"raise_for_status", "parse_html", "find_workout", "find_exercises",
             "loop", "returned", "failed"} => session = "closed"
  /\ \A k \in 1..Len(requests) : requests[k].session = "open"

\* the request failed in transport and the client is closed
C10_Witness ==
  pc = "failed" /\ error = "RequestError" /\ session = "closed" /\ Len(requests) = 1

====
